---- MODULE Spec2Model ----
(***************************************************************************)
(* Field elision and defaulting of run.py: record types declared with     *)
(* Skip(...) annotations, built by AdvancedBaseModel.__init__ on top of   *)
(* the validating BaseModel, then mutated by validated assignment and     *)
(* hashed by BaseModel.__hash__.                                          *)
(***************************************************************************)
EXTENDS Integers, Sequences, FiniteSets, TLC

\* Longest list a caller passes for a list-typed field.
MaxListLen == 2

(***************************************************************************)
(* Values.  Every Python value is a record tagged by its kind.             *)
(***************************************************************************)
None == [k |-> "none", v |-> 0]
I(n) == [k |-> "int", v |-> n]
S(s) == [k |-> "str", v |-> s]
L(q) == [k |-> "list", v |-> q]
\* An instance of a record type: its class and its __dict__, an ordered
\* sequence of <<name, value>> items.
M(c, d) == [k |-> "model", v |-> d, cls |-> c]

\* pydantic's Undefined: the field has no class-level default.
Undefined == [k |-> "undefined", v |-> 0]
\* The first positional argument of a Skip(...) call: the wrapped type.
TypeArg == [k |-> "type", v |-> 0]

\* str(n) for the integers of the model.
Digits == <<"1", "2", "3", "4", "5", "6", "7", "8", "9">>
IntToStr(n) == Digits[n]
\* int(s): the number a numeric string denotes, 0 when int(s) raises.
StrToInt(s) == IF \E n \in DOMAIN Digits : Digits[n] = s
               THEN CHOOSE n \in DOMAIN Digits : Digits[n] = s
               ELSE 0

(***************************************************************************)
(* Declared types.                                                         *)
(***************************************************************************)
TStr == [t |-> "str"]
TInt == [t |-> "int"]
Optional(T) == [t |-> "opt", of |-> T]
List(T) == [t |-> "list", of |-> T]
\* Union[str, int, None]
UnionStrIntNone == [t |-> "union"]
\* A field whose type is a record type.
Model(c) == [t |-> "model", cls |-> c]

\* The field accepts None (pydantic's allow_none).
AllowNone(T) == T.t \in {"opt", "union"}

Ok(x) == [ok |-> TRUE, v |-> x]
Err == [ok |-> FALSE, v |-> None]

\* The validator of a str field: strings pass, integers become their text.
StrValidator(x) ==
    CASE x.k = "str" -> Ok(x)
      [] x.k = "int" -> Ok(S(IntToStr(x.v)))
      [] OTHER -> Err

\* The validator of an int field: integers pass, numeric strings are parsed.
IntValidator(x) ==
    CASE x.k = "int" -> Ok(x)
      [] x.k = "str" -> IF StrToInt(x.v) # 0 THEN Ok(I(StrToInt(x.v))) ELSE Err
      [] OTHER -> Err

\* ModelField.validate: the value coerced to the declared type, or an error.
RECURSIVE Validate(_, _)
Validate(T, x) ==
    CASE x.k = "none" -> IF AllowNone(T) THEN Ok(None) ELSE Err
      [] T.t = "opt" -> Validate(T.of, x)
      [] T.t = "union" ->
            IF StrValidator(x).ok THEN StrValidator(x) ELSE IntValidator(x)
      [] T.t = "str" -> StrValidator(x)
      [] T.t = "int" -> IntValidator(x)
      [] T.t = "list" ->
            IF x.k # "list" THEN Err
            ELSE LET r == [i \in 1..Len(x.v) |-> Validate(T.of, x.v[i])]
                 IN IF \A i \in 1..Len(x.v) : r[i].ok
                    THEN Ok(L([i \in 1..Len(x.v) |-> r[i].v]))
                    ELSE Err
      [] T.t = "model" ->
            IF x.k = "model" /\ x.cls = T.cls THEN Ok(x) ELSE Err
      [] OTHER -> Err

(***************************************************************************)
(* __dict__ of an instance: an ordered sequence of items, as a Python      *)
(* dict keeps insertion order.                                             *)
(***************************************************************************)
Item(n, x) == [name |-> n, value |-> x]
Keys(d) == {d[i].name : i \in 1..Len(d)}
Has(d, n) == n \in Keys(d)
Get(d, n) == d[CHOOSE i \in 1..Len(d) : d[i].name = n].value
\* {**d, n: x}: replaces the item in place, or appends a new one.
SetItem(d, n, x) ==
    IF Has(d, n)
    THEN [i \in 1..Len(d) |-> IF d[i].name = n THEN Item(n, x) ELSE d[i]]
    ELSE Append(d, Item(n, x))
DelItem(d, n) == SelectSeq(d, LAMBDA it : it.name # n)
Values(d) == [i \in 1..Len(d) |-> d[i].value]

(***************************************************************************)
(* Class definitions.  A class is its name, its base and its body, the     *)
(* annotated assignments in declaration order.  An annotated assignment    *)
(* keeps what the syntax tree holds: the target, the called function of    *)
(* the annotation ("" when the annotation is no call), the positional      *)
(* arguments and the keywords of that call, and the assigned value.        *)
(***************************************************************************)
SKIP_KEYWORD == "Skip"

\* Skip(_type, default=None) returns _type: the declared type of the field
\* is the wrapped type, and the default is not looked at.
Skip(_type, default) == _type

Keyword(a, x) == [arg |-> a, value |-> x]

\* name: T            and            name: T = x
Plain(n, T) ==
    [target |-> n, type |-> T, func |-> "", args |-> <<>>,
     keywords |-> <<>>, value |-> Undefined]
PlainDefault(n, T, x) ==
    [target |-> n, type |-> T, func |-> "", args |-> <<>>,
     keywords |-> <<>>, value |-> x]
\* name: Skip(T)
Skip1(n, T) ==
    [target |-> n, type |-> Skip(T, None), func |-> SKIP_KEYWORD,
     args |-> <<TypeArg>>, keywords |-> <<>>, value |-> Undefined]
\* name: Skip(T, x)
SkipPos(n, T, x) ==
    [target |-> n, type |-> Skip(T, x), func |-> SKIP_KEYWORD,
     args |-> <<TypeArg, x>>, keywords |-> <<>>, value |-> Undefined]
\* name: Skip(T, default=x)
SkipKw(n, T, x) ==
    [target |-> n, type |-> Skip(T, x), func |-> SKIP_KEYWORD,
     args |-> <<TypeArg>>, keywords |-> <<Keyword("default", x)>>,
     value |-> Undefined]
\* name: Skip(_type=T)
SkipTypeKw(n, T) ==
    [target |-> n, type |-> Skip(T, None), func |-> SKIP_KEYWORD,
     args |-> <<>>, keywords |-> <<Keyword("_type", TypeArg)>>,
     value |-> Undefined]

Class(n, b, body) == [name |-> n, base |-> b, body |-> body]

\* __fields__[name] of a class: the annotated assignment of that name.
Field(c, n) == c.body[CHOOSE i \in 1..Len(c.body) : c.body[i].target = n]
FieldNames(c) == {c.body[i].target : i \in 1..Len(c.body)}
\* ModelField.required: no assigned value and a type that does not accept None.
Required(f) == f.value.k = "undefined" /\ ~AllowNone(f.type)
\* ModelField.default: the assigned value, None without one.
Default(f) == IF f.value.k = "undefined" THEN None ELSE f.value

(***************************************************************************)
(* Construction.                                                           *)
(***************************************************************************)
Result(e, d, fs) == [raised |-> e, dict |-> d, fields_set |-> fs]

\* What validation makes of field f under the keyword arguments kw
\* (validate_all = True: a default is validated like an input).
FieldValue(f, kw) ==
    IF f.target \in DOMAIN kw THEN Validate(f.type, kw[f.target])
    ELSE IF Required(f) THEN Err
    ELSE Validate(f.type, Default(f))


\* Faulty variant: a field that fails validation is stored as None instead of
\* failing the call.
BaseModel_init_Lenient(c, kw) ==
    LET r == [i \in 1..Len(c.body) |-> FieldValue(c.body[i], kw)]
    IN Result("none",
              [i \in 1..Len(c.body) |-> Item(c.body[i].target, r[i].v)],
              DOMAIN kw \cap FieldNames(c))

\* BaseModel.__init__: every field is validated; one failure raises
\* ValidationError and no instance is made.
BaseModel_init(c, kw) ==
    LET r == [i \in 1..Len(c.body) |-> FieldValue(c.body[i], kw)]
    IN IF \A i \in 1..Len(c.body) : r[i].ok
       THEN Result("none",
                   [i \in 1..Len(c.body) |-> Item(c.body[i].target, r[i].v)],
                   DOMAIN kw \cap FieldNames(c))
       ELSE Result("ValidationError", <<>>, {})


\* Faulty variant: assignment without validation (validate_assignment off).
BaseModel_setattr_Unvalidated(c, st, n, x) ==
    Result("none", SetItem(st.dict, n, x), st.fields_set \cup {n})


\* BaseModel.__setattr__ under validate_assignment = True: the value is
\* validated for the field, stored at the field's place and recorded as set.
BaseModel_setattr(c, st, n, x) ==
    LET r == Validate(Field(c, n).type, x)
    IN IF r.ok
       THEN Result("none", SetItem(st.dict, n, r.v), st.fields_set \cup {n})
       ELSE Result("ValidationError", st.dict, st.fields_set)


\* Faulty variant: the default is assigned whenever the field is None, set or not.
SubstituteDefault_WhenNone(c, st, a) ==
    IF Get(st.dict, a.target).k # "none" THEN st
    ELSE IF Len(a.keywords) > 0
         THEN LET kws == SelectSeq(a.keywords, LAMBDA kw : kw.arg = "default")
              IN IF Len(kws) = 0
                 THEN Result("IndexError", st.dict, st.fields_set)
                 ELSE BaseModel_setattr(c, st, a.target, kws[1].value)
    ELSE IF Len(a.args) = 2
         THEN BaseModel_setattr(c, st, a.target, a.args[Len(a.args)])
    ELSE st


\* Faulty variant: the default is stored as written, without validation.
SubstituteDefault_Raw(c, st, a) ==
    IF a.target \in st.fields_set THEN st
    ELSE IF Len(a.keywords) > 0
         THEN LET kws == SelectSeq(a.keywords, LAMBDA kw : kw.arg = "default")
              IN IF Len(kws) = 0
                 THEN Result("IndexError", st.dict, st.fields_set)
                 ELSE Result("none", SetItem(st.dict, a.target, kws[1].value),
                             st.fields_set \cup {a.target})
    ELSE IF Len(a.args) = 2
         THEN Result("none", SetItem(st.dict, a.target, a.args[Len(a.args)]),
                     st.fields_set \cup {a.target})
    ELSE st

\* Faulty variant: only a default given by name is honoured.
SubstituteDefault_NamedOnly(c, st, a) ==
    IF a.target \in st.fields_set THEN st
    ELSE IF Len(a.keywords) > 0
         THEN LET kws == SelectSeq(a.keywords, LAMBDA kw : kw.arg = "default")
              IN IF Len(kws) = 0
                 THEN Result("IndexError", st.dict, st.fields_set)
                 ELSE BaseModel_setattr(c, st, a.target, kws[1].value)
    ELSE st

\* Lines 53-65: the declared default is assigned when the field was not set
\* in the call.
SubstituteDefault(c, st, a) ==
    IF a.target \in st.fields_set THEN st
    ELSE IF Len(a.keywords) > 0
         THEN LET kws == SelectSeq(a.keywords, LAMBDA kw : kw.arg = "default")
              IN IF Len(kws) = 0
                 THEN Result("IndexError", st.dict, st.fields_set)
                 ELSE BaseModel_setattr(c, st, a.target, kws[1].value)
    ELSE IF Len(a.args) = 2
         THEN BaseModel_setattr(c, st, a.target, a.args[Len(a.args)])
    ELSE st


\* Faulty variant: the field is removed when its value is falsy (None, "" or []).
RemoveUnset_Falsy(c, st, a) ==
    LET x == Get(st.dict, a.target)
    IN IF /\ ~Required(Field(c, a.target))
          /\ \/ x.k = "none"
             \/ (x.k = "str" /\ x.v = "")
             \/ (x.k = "list" /\ Len(x.v) = 0)
       THEN Result(st.raised, DelItem(st.dict, a.target), st.fields_set)
       ELSE st

\* Faulty variant: None elements of a list value are dropped as well.
RemoveUnset_Elementwise(c, st, a) ==
    LET x == Get(st.dict, a.target)
    IN IF ~Required(Field(c, a.target)) /\ x.k = "none"
       THEN Result(st.raised, DelItem(st.dict, a.target), st.fields_set)
       ELSE IF x.k = "list"
       THEN Result(st.raised,
                   SetItem(st.dict, a.target,
                           L(SelectSeq(x.v, LAMBDA e : e.k # "none"))),
                   st.fields_set)
       ELSE st

\* Lines 66-71: the field is removed when it is optional and None.
RemoveUnset(c, st, a) ==
    IF ~Required(Field(c, a.target)) /\ Get(st.dict, a.target).k = "none"
    THEN Result(st.raised, DelItem(st.dict, a.target), st.fields_set)
    ELSE st

\* Lines 45-71: one annotated assignment of the class body.
SkipField(c, st, a) ==
    IF a.func # "" /\ a.func = SKIP_KEYWORD
    THEN LET s1 == SubstituteDefault(c, st, a)
         IN IF s1.raised # "none" THEN s1 ELSE RemoveUnset(c, s1, a)
    ELSE st

RECURSIVE SkipLoop(_, _, _)
SkipLoop(c, st, i) ==
    IF i > Len(c.body) \/ st.raised # "none" THEN st
    ELSE SkipLoop(c, SkipField(c, st, c.body[i]), i + 1)


\* Faulty variant: after the loop the None items of every embedded instance are
\* removed too, as if elision descended into the children.
AdvancedBaseModel_init_Deep(c, kw) ==
    LET st == BaseModel_init(c, kw)
    IN IF st.raised # "none" THEN st
       ELSE LET r == SkipLoop(c, st, 1)
                strip(x) ==
                    IF x.k = "model"
                    THEN M(x.cls, SelectSeq(x.v, LAMBDA it : it.value.k # "none"))
                    ELSE x
            IN IF r.raised # "none" THEN Result(r.raised, <<>>, {})
               ELSE Result("none",
                           [i \in 1..Len(r.dict) |->
                               Item(r.dict[i].name, strip(r.dict[i].value))],
                           r.fields_set)

\* AdvancedBaseModel.__init__
AdvancedBaseModel_init(c, kw) ==
    LET st == BaseModel_init(c, kw)
    IN IF st.raised # "none" THEN st
       ELSE LET r == SkipLoop(c, st, 1)
            IN IF r.raised # "none" THEN Result(r.raised, <<>>, {}) ELSE r

\* Calling the class: the __init__ of its base.
Construct(c, kw) ==
    IF c.base = "AdvancedBaseModel" THEN AdvancedBaseModel_init(c, kw)
    ELSE BaseModel_init(c, kw)

\* BaseModel.dict(): the mapping from the names in __dict__ to their values,
\* nested instances turned into mappings and lists walked element-wise.
RECURSIVE ToDict(_)
RECURSIVE ToPlain(_)
ToPlain(x) ==
    CASE x.k = "model" -> [k |-> "map", v |-> ToDict(x.v)]
      [] x.k = "list" -> L([i \in 1..Len(x.v) |-> ToPlain(x.v[i])])
      [] OTHER -> x
ToDict(d) == [n \in Keys(d) |-> ToPlain(Get(d, n))]

(***************************************************************************)
(* The record types and the inputs of the model.                           *)
(***************************************************************************)
NoArgs == [n \in {} |-> None]

\* class Inner(BaseModel) of test_nested_skip
InnerPlain ==
    Class("test_nested_skip.Inner", "BaseModel",
          <<Plain("e", TInt), Plain("f", Optional(TInt)),
            Skip1("g", Optional(List(TStr)))>>)
\* class Inner(AdvancedBaseModel) of test_inner_skip
InnerSkip ==
    Class("test_inner_skip.Inner", "AdvancedBaseModel",
          <<Plain("e", TInt), Plain("f", Optional(TInt)),
            Skip1("g", Optional(List(TStr)))>>)
InnerClasses == {InnerPlain, InnerSkip}

\* The instance a successful call c(**kw) returns.
Instance(c, kw) == M(c.name, Construct(c, kw).dict)

\* Inner(e=1, f=2), Inner(e=1, g=None) and an Inner with g given.
InnerInstances(c) ==
    {Instance(c, ("e" :> I(1)) @@ ("f" :> I(2))),
     Instance(c, ("e" :> I(1)) @@ ("g" :> None)),
     Instance(c, ("e" :> I(1)) @@ ("f" :> I(2)) @@
                 ("g" :> L(<<S("x")>>)))}

\* The annotated assignments a class body is made of, for a field named n.
Kinds(n) ==
    {Plain(n, TStr),
     Plain(n, Optional(TStr)),
     PlainDefault(n, Optional(TStr), S("string")),
     Skip1(n, TStr),
     Skip1(n, Optional(TStr)),
     SkipKw(n, Optional(TStr), S("string2")),
     SkipPos(n, Optional(TStr), S("string3")),
     SkipPos(n, Optional(TStr), None),
     SkipPos(n, Optional(List(TStr)), L(<<I(1), I(2), I(3)>>)),
     SkipKw(n, UnionStrIntNone, I(1)),
     Skip1(n, Optional(List(Optional(TStr)))),
     Skip1(n, Optional(List(Optional(List(TStr))))),
     Skip1(n, Optional(List(List(Optional(TStr))))),
     Plain(n, Model(InnerPlain.name)),
     Plain(n, Model(InnerSkip.name)),
     Skip1(n, Optional(Model(InnerPlain.name))),
     SkipPos(n, Optional(TInt), S("x")),
     SkipKw(n, TStr, S("x")),
     SkipTypeKw(n, Optional(TStr))}

\* The second field of a two-field class.
SecondKinds(n) ==
    {Plain(n, Optional(TStr)),
     Skip1(n, Optional(TStr)),
     SkipKw(n, Optional(TStr), S("string2")),
     SkipPos(n, Optional(TInt), S("x"))}

Bases == {"BaseModel", "AdvancedBaseModel"}

Classes ==
    {Class("Outer", b, <<f>>) : b \in Bases, f \in Kinds("a")}
    \cup {Class("Outer", b, <<f, g>>) :
            b \in Bases, f \in Kinds("a"), g \in SecondKinds("b")}

Scalars == {None, I(1), S("x"), S("")}
ListsOf(E) == {L(q) : q \in UNION {[1..n -> E] : n \in 0..MaxListLen}}
\* The elements a caller puts into a list for element type T.
Elements(T) ==
    IF T.t = "list" \/ (T.t = "opt" /\ T.of.t = "list")
    THEN {None, L(<<>>), L(<<S("x")>>), L(<<None>>)}
    ELSE {None, I(1), S("x")}
\* The values a caller passes for a field of type T.
RECURSIVE Raws(_)
Raws(T) ==
    CASE T.t = "opt" -> Raws(T.of)
      [] T.t = "int" -> {None, I(1), S("2"), S("x")}
      [] T.t = "list" -> {None, I(1)} \cup ListsOf(Elements(T.of))
      [] T.t = "model" ->
            {None, I(1)} \cup
            UNION {InnerInstances(c) : c \in {d \in InnerClasses : d.name = T.cls}}
      [] OTHER -> Scalars \cup {L(<<>>)}

\* The keyword arguments of a call: any subset of the fields, each with a
\* value a caller passes for its type.
RECURSIVE KwargsFrom(_, _)
KwargsFrom(body, i) ==
    IF i > Len(body) THEN {NoArgs}
    ELSE LET rest == KwargsFrom(body, i + 1)
         IN rest \cup {(body[i].target :> x) @@ r :
                          x \in Raws(body[i].type), r \in rest}
Kwargs(c) == KwargsFrom(c.body, 1)

\* The values assigned to an attribute after construction.
Assigned == {None, I(1), S("x"), L(<<None, S("x")>>)}

(***************************************************************************)
(* State.                                                                  *)
(***************************************************************************)
VARIABLES
    cls,         \* the class defined, NoClass before its definition
    op,          \* the last operation: "none", "class", "init", "setattr"
    kwargs,      \* the keyword arguments of the last operation, a constructor call
    attr,        \* the attribute the last operation assigns, "" if it is no assignment
    rhs,         \* the value the last operation assigns
    raised,      \* what the last operation raised: "none" or the error
    alive,       \* the caller holds an instance
    self_dict,   \* __dict__ of the instance
    fields_set,  \* __fields_set__ of the instance
    left,        \* the first of two instances that are compared
    right,       \* the second
    cmp          \* the outcome of comparing and hashing the two

vars == <<cls, op, kwargs, attr, rhs, raised, alive, self_dict, fields_set,
          left, right, cmp>>
pair == <<left, right, cmp>>
one == <<cls, op, kwargs, attr, rhs, raised, alive, self_dict, fields_set>>

\* No instance yet, and no comparison yet.
NoInstance == [made |-> FALSE, cls |-> "", dict |-> <<>>]
NoCmp == [done |-> FALSE, eq |-> FALSE, hash_left |-> "", hash_right |-> ""]

NoClass == Class("", "", <<>>)

Init ==
    /\ cls = NoClass
    /\ op = "none"
    /\ kwargs = NoArgs
    /\ attr = ""
    /\ rhs = None
    /\ raised = "none"
    /\ alive = FALSE
    /\ self_dict = <<>>
    /\ fields_set = {}
    /\ left = NoInstance
    /\ right = NoInstance
    /\ cmp = NoCmp

\* The class statement: the body is evaluated, each Skip(...) call returns
\* its type, and the class exists.  Nothing is raised.
DefineClass(c) ==
    /\ op = "none"
    /\ cls' = c
    /\ op' = "class"
    /\ raised' = "none"
    /\ UNCHANGED <<kwargs, attr, rhs, alive, self_dict, fields_set>>
    /\ UNCHANGED pair

\* cls(**kw): the caller gets the instance unless __init__ raises.
New(kw) ==
    /\ op = "class"
    /\ LET r == Construct(cls, kw)
       IN /\ raised' = r.raised
          /\ alive' = (r.raised = "none")
          /\ self_dict' = r.dict
          /\ fields_set' = r.fields_set
    /\ op' = "init"
    /\ kwargs' = kw
    /\ attr' = ""
    /\ rhs' = None
    /\ UNCHANGED cls
    /\ UNCHANGED pair

\* Faulty variant: the assignment runs the removal again, so an elidable optional
\* field that becomes None is dropped.
SetAttr_Elide(n, x) ==
    /\ alive
    /\ LET r == BaseModel_setattr(cls, Result("none", self_dict, fields_set), n, x)
       IN /\ raised' = r.raised
          /\ self_dict' =
                IF /\ r.raised = "none" /\ Get(r.dict, n).k = "none"
                   /\ Field(cls, n).func = SKIP_KEYWORD /\ ~Required(Field(cls, n))
                THEN DelItem(r.dict, n)
                ELSE r.dict
          /\ fields_set' = r.fields_set
    /\ op' = "setattr"
    /\ kwargs' = NoArgs
    /\ attr' = n
    /\ rhs' = x
    /\ UNCHANGED <<cls, alive>>
    /\ UNCHANGED pair

\* self.n = x after construction: validated assignment; a failed validation
\* raises and leaves the instance as it was.
SetAttr(n, x) ==
    /\ alive
    /\ LET r == BaseModel_setattr(cls, Result("none", self_dict, fields_set), n, x)
       IN /\ raised' = r.raised
          /\ self_dict' = r.dict
          /\ fields_set' = r.fields_set
    /\ op' = "setattr"
    /\ kwargs' = NoArgs
    /\ attr' = n
    /\ rhs' = x
    /\ UNCHANGED <<cls, alive>>
    /\ UNCHANGED pair

Next ==
    \/ \E c \in Classes : DefineClass(c)
    \/ \E kw \in Kwargs(cls) : New(kw)
    \/ \E n \in FieldNames(cls), x \in Assigned : SetAttr(n, x)

Spec == Init /\ [][Next]_vars


(***************************************************************************)
(* Hashing and equality of two instances.                                  *)
(***************************************************************************)
RECURSIVE Join(_)
\* ", ".join(q)
Join(q) ==
    IF Len(q) = 0 THEN ""
    ELSE IF Len(q) = 1 THEN q[1]
    ELSE q[1] \o ", " \o Join(Tail(q))

\* repr(x)
RECURSIVE Repr(_)
Repr(x) ==
    CASE x.k = "none" -> "None"
      [] x.k = "int" -> IntToStr(x.v)
      [] x.k = "str" -> "'" \o x.v \o "'"
      [] x.k = "list" -> "[" \o Join([i \in 1..Len(x.v) |-> Repr(x.v[i])]) \o "]"
      [] OTHER ->
            x.cls \o "(" \o
            Join([i \in 1..Len(x.v) |-> x.v[i].name \o "=" \o Repr(x.v[i].value)])
            \o ")"

\* repr of a tuple: a one-element tuple ends in a comma.
ReprTuple(q) ==
    IF Len(q) = 1 THEN "(" \o q[1] \o ",)" ELSE "(" \o Join(q) \o ")"

\* BaseModel.__hash__: hash(repr((type(self),) + tuple(self.__dict__.values()))).
\* The hash of a string is written as the string: equal strings hash equal,
\* and two strings that differ are taken to hash differently.
BaseModel_hash(inst) ==
    ReprTuple(<<"<class '" \o inst.cls \o "'>">> \o
              [i \in 1..Len(inst.dict) |-> Repr(inst.dict[i].value)])

\* == of two instances.  run.py defines no __eq__: the inherited comparison
\* is that of the two dict() maps, whatever the two types are.
BaseModel_eq(a, b) == ToDict(a.dict) = ToDict(b.dict)

\* The record types that are compared: the same bodies under two names.
HashClasses ==
    {Class(n, "AdvancedBaseModel", <<f>>) :
        n \in {"test_multi_line_skip.A", "test_union_skip.UnionTest"},
        f \in {Skip1("a", Optional(TStr)),
               Skip1("a", UnionStrIntNone),
               SkipKw("a", Optional(TStr), S("string2"))}}

MakeLeft(c, kw) ==
    /\ ~left.made
    /\ Construct(c, kw).raised = "none"
    /\ left' = [made |-> TRUE, cls |-> c.name, dict |-> Construct(c, kw).dict]
    /\ UNCHANGED <<right, cmp>>
    /\ UNCHANGED one

MakeRight(c, kw) ==
    /\ ~right.made
    /\ Construct(c, kw).raised = "none"
    /\ right' = [made |-> TRUE, cls |-> c.name, dict |-> Construct(c, kw).dict]
    /\ UNCHANGED <<left, cmp>>
    /\ UNCHANGED one

\* left == right, hash(left) and hash(right)
Compare ==
    /\ left.made /\ right.made /\ ~cmp.done
    /\ cmp' = [done |-> TRUE, eq |-> BaseModel_eq(left, right),
               hash_left |-> BaseModel_hash(left),
               hash_right |-> BaseModel_hash(right)]
    /\ UNCHANGED <<left, right>>
    /\ UNCHANGED one

NextHash ==
    \/ \E c \in HashClasses : \E kw \in Kwargs(c) : MakeLeft(c, kw)
    \/ \E c \in HashClasses : \E kw \in Kwargs(c) : MakeRight(c, kw)
    \/ Compare

SpecHash == Init /\ [][NextHash]_vars

(***************************************************************************)
(* Vocabulary of the properties.                                           *)
(***************************************************************************)
Aware(c) == c.base = "AdvancedBaseModel"
\* The field is marked elidable: its annotation is a Skip(...) call.
Elidable(a) == a.func = SKIP_KEYWORD
\* The Skip(...) call declares a default, by position or by name.
HasDefault(a) ==
    \/ Len(a.args) = 2
    \/ \E i \in 1..Len(a.keywords) : a.keywords[i].arg = "default"
\* The literal of that default.
DefaultLiteral(a) ==
    IF Len(a.args) = 2 THEN a.args[2]
    ELSE a.keywords[CHOOSE i \in 1..Len(a.keywords) :
                        a.keywords[i].arg = "default"].value
Supplied(a) == a.target \in DOMAIN kwargs
Body == {cls.body[i] : i \in 1..Len(cls.body)}
\* The output map of the instance.
Output == ToDict(self_dict)
\* A constructor call has just returned an instance of an elision-aware type.
Built == op = "init" /\ alive /\ Aware(cls)

\* C1: in an elision-aware record, an elidable optional field that declares
\* a default and is supplied as None is omitted from the output map, and a
\* supplied field holds its validated input, never the default.
C1_ExplicitNullNeverDefaulted ==
    Built =>
        \A a \in Body :
            (Elidable(a) /\ ~Required(a) /\ HasDefault(a) /\ Supplied(a)) =>
                /\ kwargs[a.target].k = "none" => a.target \notin DOMAIN Output
                /\ a.target \in DOMAIN Output =>
                       Get(self_dict, a.target) = Validate(a.type, kwargs[a.target]).v

\* An instance exists whose defaulted field was supplied as None and is gone.
C1_Witness ==
    /\ Built
    /\ \E a \in Body :
          /\ Elidable(a) /\ ~Required(a) /\ HasDefault(a)
          /\ DefaultLiteral(a).k # "none"
          /\ Supplied(a) /\ kwargs[a.target].k = "none"
          /\ a.target \notin DOMAIN Output

\* C2: an elidable optional field the caller did not supply holds its
\* validated default and is present when that is not None; without a
\* default, or with a None default, it is omitted.
C2_UnsetDefaultOrOmitted ==
    Built =>
        \A a \in Body :
            (Elidable(a) /\ ~Required(a) /\ ~Supplied(a)) =>
                IF HasDefault(a) /\ Validate(a.type, DefaultLiteral(a)).v.k # "none"
                THEN /\ a.target \in DOMAIN Output
                     /\ Get(self_dict, a.target) = Validate(a.type, DefaultLiteral(a)).v
                ELSE a.target \notin DOMAIN Output

\* An instance holds a default that validation coerced, beside an omitted
\* field that has no default.
C2_Witness ==
    /\ Built
    /\ \E a \in Body :
          /\ Elidable(a) /\ ~Supplied(a) /\ HasDefault(a)
          /\ a.target \in DOMAIN Output
          /\ Get(self_dict, a.target) # DefaultLiteral(a)
    /\ \E a \in Body :
          /\ Elidable(a) /\ ~Supplied(a) /\ ~HasDefault(a)
          /\ a.target \notin DOMAIN Output

\* The value a field has once its input or its default is resolved, before
\* anything is removed.
FinalValue(a) ==
    IF Supplied(a) THEN Validate(a.type, kwargs[a.target]).v
    ELSE IF Elidable(a) /\ HasDefault(a) THEN Validate(a.type, DefaultLiteral(a)).v
    ELSE Validate(a.type, Default(a)).v
\* The elision decision.
Omit(a) == Elidable(a) /\ ~Required(a) /\ FinalValue(a).k = "none"

\* C3 as stated: after construction of an elision-aware record a field is
\* absent iff it is elidable, optional and finally None; an optional
\* non-elidable field without input is present with value None; an elidable
\* field with a non-None final value is present.
C3_Original ==
    Built =>
        \A a \in Body :
            /\ (a.target \notin DOMAIN Output) <=> Omit(a)
            /\ (~Elidable(a) /\ ~Required(a) /\ ~Supplied(a)) =>
                   /\ a.target \in DOMAIN Output
                   /\ Get(self_dict, a.target).k = "none"
            /\ (Elidable(a) /\ FinalValue(a).k # "none") =>
                   /\ a.target \in DOMAIN Output
                   /\ Get(self_dict, a.target) = FinalValue(a)

\* C3 amended: as stated, except that an optional non-elidable field without
\* input is present with its validated class-level default, which is None
\* only when the class assigns it no value.
C3_AbsentIffOmit ==
    Built =>
        \A a \in Body :
            /\ (a.target \notin DOMAIN Output) <=> Omit(a)
            /\ (~Elidable(a) /\ ~Required(a) /\ ~Supplied(a)) =>
                   /\ a.target \in DOMAIN Output
                   /\ Get(self_dict, a.target) = Validate(a.type, Default(a)).v
                   /\ a.value.k = "undefined" => Get(self_dict, a.target).k = "none"
            /\ (Elidable(a) /\ FinalValue(a).k # "none") =>
                   /\ a.target \in DOMAIN Output
                   /\ Get(self_dict, a.target) = FinalValue(a)

\* An elidable field survives with an empty list or an empty string beside an
\* optional non-elidable field that is present with None.
C3_Witness ==
    /\ Built
    /\ \E a \in Body :
          /\ Elidable(a) /\ ~Required(a) /\ a.target \in DOMAIN Output
          /\ Get(self_dict, a.target) \in {S(""), L(<<>>)}
    /\ \E a \in Body :
          /\ ~Elidable(a) /\ ~Required(a) /\ ~Supplied(a)
          /\ a.target \in DOMAIN Output
          /\ Get(self_dict, a.target).k = "none"

InnerNamed(n) == CHOOSE c \in InnerClasses : c.name = n
\* The field was given an instance of a record type.
Embedded(a) == Supplied(a) /\ kwargs[a.target].k = "model"
\* The same class on the other base.
Rebase(c) ==
    [c EXCEPT !.base = IF Aware(c) THEN "BaseModel" ELSE "AdvancedBaseModel"]

\* C4: a child embedded in a parent keeps exactly its own surviving fields,
\* whatever the parent's base: a child field is missing only when the child's
\* own type is elision-aware, and a parent field only when the parent's is.
C4_NestingIndependent ==
    (op = "init" /\ alive /\ \E a \in Body : Embedded(a)) =>
        /\ \A a \in Body : Embedded(a) =>
              LET child == kwargs[a.target]
                  inner == InnerNamed(child.cls)
                  m == Output[a.target].v
              IN /\ Output[a.target] = ToPlain(child)
                 /\ \A i \in 1..Len(inner.body) :
                       LET f == inner.body[i]
                       IN /\ f.target \notin DOMAIN m =>
                                Aware(inner) /\ Elidable(f) /\ ~Required(f)
                          /\ (f.target \in DOMAIN m /\ Aware(inner) /\ Elidable(f)
                                /\ ~Required(f)) => m[f.target].k # "none"
                 /\ LET o == Construct(Rebase(cls), kwargs)
                    IN o.raised = "none" => ToDict(o.dict)[a.target] = Output[a.target]
        /\ \A a \in Body :
              (a.target \notin DOMAIN Output) <=> (Aware(cls) /\ Omit(a))

\* An elision-aware parent that dropped its own field holds a child of the
\* plain type with a None field kept, or the other way round.
C4_Witness ==
    /\ op = "init" /\ alive /\ Aware(cls)
    /\ \E a \in Body : Elidable(a) /\ a.target \notin DOMAIN Output
    /\ \E a \in Body :
          /\ Embedded(a)
          /\ ~Aware(InnerNamed(kwargs[a.target].cls))
          /\ "g" \in DOMAIN Output[a.target].v
          /\ Output[a.target].v["g"].k = "none"

\* Every None of a supplied list is still at its place, at every depth.
RECURSIVE NullsKept(_, _)
NullsKept(raw, out) ==
    /\ out.k = "list"
    /\ Len(out.v) = Len(raw.v)
    /\ \A i \in 1..Len(raw.v) :
          /\ raw.v[i].k = "none" => out.v[i].k = "none"
          /\ raw.v[i].k = "list" => NullsKept(raw.v[i], out.v[i])

\* C5: an elidable field supplied with a list is present, and every None
\* element of the list, at any depth, is retained at its position; a list of
\* None elements only, or an empty list, does not omit the field.
C5_ElementsNeverElided ==
    Built =>
        \A a \in Body :
            (Elidable(a) /\ Supplied(a) /\ kwargs[a.target].k = "list") =>
                /\ a.target \in DOMAIN Output
                /\ NullsKept(kwargs[a.target], Output[a.target])

\* A list of None elements only survived as it was.
C5_Witness ==
    /\ Built
    /\ \E a \in Body :
          /\ Elidable(a) /\ Supplied(a)
          /\ kwargs[a.target] = L(<<None, None>>)
          /\ Output[a.target] = L(<<None, None>>)

\* A supplied value fails the validation of its field.
InvalidInput ==
    \E a \in Body : Supplied(a) /\ ~Validate(a.type, kwargs[a.target]).ok
\* The loop reaches a default that fails validation: no earlier field of the
\* body fails on its keywords first.
InvalidDefault ==
    /\ Aware(cls)
    /\ ~InvalidInput
    /\ \E i \in 1..Len(cls.body) :
          LET a == cls.body[i]
          IN /\ Elidable(a) /\ ~Supplied(a) /\ HasDefault(a)
             /\ ~Validate(a.type, DefaultLiteral(a)).ok
             /\ \A j \in 1..(i - 1) :
                   LET b == cls.body[j]
                   IN ~(Elidable(b) /\ ~Supplied(b) /\ Len(b.keywords) > 0
                          /\ ~HasDefault(b))

\* C6: when a supplied value or a substituted default fails validation the
\* constructor raises ValidationError and the caller holds no instance; an
\* instance exists only when every supplied field validated.
C6_FailureYieldsNoInstance ==
    op = "init" =>
        /\ (InvalidInput \/ InvalidDefault) =>
              /\ raised = "ValidationError"
              /\ ~alive
              /\ self_dict = <<>>
        /\ alive => raised = "none" /\ ~InvalidInput

\* A None inside a list of non-optional elements failed the construction.
C6_Witness ==
    /\ op = "init" /\ raised = "ValidationError" /\ ~alive
    /\ \E a \in Body :
          /\ Supplied(a) /\ kwargs[a.target].k = "list"
          /\ a.type = Optional(List(TStr))
          /\ \E i \in 1..Len(kwargs[a.target].v) : kwargs[a.target].v[i].k = "none"

\* C7: an assignment after construction validates the value for its field
\* and stores it; it removes no field and substitutes no default, so None
\* assigned to a surviving elidable field stays as None, and a field that is
\* absent stays absent when another field is assigned.
C7_AssignmentNeverElides ==
    [][op' = "setattr" =>
          LET r == Validate(Field(cls, attr').type, rhs')
          IN /\ alive'
             /\ (raised' = "none") <=> r.ok
             /\ ~r.ok => raised' = "ValidationError" /\ self_dict' = self_dict
             /\ r.ok => Has(self_dict', attr') /\ Get(self_dict', attr') = r.v
             /\ Keys(self_dict) \subseteq Keys(self_dict')
             /\ \A n \in FieldNames(cls) \ Keys(self_dict) :
                    n # attr' => n \notin Keys(self_dict')
             /\ \A n \in Keys(self_dict) :
                    n # attr' => Get(self_dict', n) = Get(self_dict, n)
      ]_vars

\* None was assigned to an elidable field with a default: it is present with
\* None, while another elidable field is still absent.
C7_Witness ==
    /\ op = "setattr" /\ raised = "none" /\ Aware(cls)
    /\ rhs.k = "none"
    /\ Elidable(Field(cls, attr)) /\ HasDefault(Field(cls, attr))
    /\ Has(self_dict, attr) /\ Get(self_dict, attr).k = "none"
    /\ \E a \in Body : Elidable(a) /\ a.target # attr /\ ~Has(self_dict, a.target)

\* The declaration the registry is to reject: an elidable field whose default
\* cannot be coerced to its type, or whose type does not accept None.
BadDeclaration(a) ==
    /\ Elidable(a) /\ HasDefault(a)
    /\ ~Validate(a.type, DefaultLiteral(a)).ok \/ ~AllowNone(a.type)

\* C9 as stated: a class with such a declaration is rejected with a schema
\* error when it is defined, before any instance is constructed.
C9_Original ==
    (\E a \in Body : BadDeclaration(a)) =>
        raised = "SchemaError" /\ op # "init" /\ ~alive

\* C9 amended: the class statement accepts such a declaration; the failure
\* comes at construction, and only when the caller leaves the field out: the
\* call raises (ValidationError when the default itself is what fails, or when
\* the field is required and so reported missing) and yields no instance.
\* When the field is supplied the default is never used.
C9_RejectedAtConstruction ==
    \A a \in Body : BadDeclaration(a) =>
        /\ op = "class" => raised = "none"
        /\ (op = "init" /\ ~Supplied(a) /\ (Aware(cls) \/ Required(a))) =>
              /\ ~alive /\ raised # "none"
              /\ (Required(a) \/ InvalidDefault) => raised = "ValidationError"
        /\ (op = "init" /\ alive /\ Supplied(a) /\ Has(self_dict, a.target)) =>
              Get(self_dict, a.target) = Validate(a.type, kwargs[a.target]).v

\* A class with an uncoercible default was defined, and the constructor call
\* that leaves the field out raised ValidationError.
C9_Witness ==
    /\ op = "init" /\ Aware(cls) /\ raised = "ValidationError" /\ ~alive
    /\ ~InvalidInput
    /\ \E a \in Body :
          /\ BadDeclaration(a) /\ AllowNone(a.type) /\ ~Supplied(a)
          /\ ~Validate(a.type, DefaultLiteral(a)).ok

\* The same annotated assignment with its default written the other way:
\* Skip(T, x) for Skip(T, default=x) and back.
Flip(a) ==
    IF Elidable(a) /\ Len(a.args) = 2 /\ Len(a.keywords) = 0
    THEN [a EXCEPT !.args = <<a.args[1]>>,
                   !.keywords = <<Keyword("default", a.args[2])>>]
    ELSE IF /\ Elidable(a) /\ Len(a.args) = 1 /\ Len(a.keywords) = 1
            /\ a.keywords[1].arg = "default"
    THEN [a EXCEPT !.args = <<a.args[1], a.keywords[1].value>>,
                   !.keywords = <<>>]
    ELSE a
FlipClass(c) == [c EXCEPT !.body = [i \in 1..Len(c.body) |-> Flip(c.body[i])]]

\* C10: a class whose defaults are written positionally and the class that
\* writes the same defaults by name give, for the same call, the same
\* outcome: the same error or the same fields with the same values.
C10_PositionalEqualsNamed ==
    (op = "init" /\ \E a \in Body : Flip(a) # a) =>
        LET o == Construct(FlipClass(cls), kwargs)
        IN /\ o.raised = raised
           /\ o.dict = self_dict
           /\ o.fields_set = fields_set

\* An instance holds the default that its class declares positionally.
C10_Witness ==
    /\ Built
    /\ \E a \in Body :
          /\ Elidable(a) /\ Len(a.args) = 2 /\ ~Supplied(a)
          /\ Has(self_dict, a.target)
          /\ Get(self_dict, a.target) = Validate(a.type, a.args[2]).v

\* C8: the hash is made of the type followed by the surviving values in
\* order, and two instances of different record types neither compare equal
\* nor hash equal, whatever their surviving values.
C8_DifferentTypesDiffer ==
    cmp.done =>
        /\ cmp.hash_left =
              ReprTuple(<<"<class '" \o left.cls \o "'>">> \o
                        [i \in 1..Len(left.dict) |-> Repr(Values(left.dict)[i])])
        /\ left.cls # right.cls => ~cmp.eq /\ cmp.hash_left # cmp.hash_right

====
